---- MODULE Spec2Model ----
(***************************************************************************)
(* Model of the Jira reporting script: the pagination planner              *)
(* (createPaginationChunks), the response schemas, and the JiraAPI client  *)
(* (getComponents, getIssuesByComponents) with its concurrent fan-out.     *)
(***************************************************************************)
EXTENDS Integers, Sequences, FiniteSets, TLC

(* ---------------------------- bounds ---------------------------------- *)
\* largest number of issues the server holds / largest integer it reports
MaxTotal == 3
\* largest server-side page cap
MaxCap == 2
\* largest integer fed to the planner in the planner specification
MaxArg == 7
\* longest component list the server answers with
MaxComponents == 2

(* ------------------------- JavaScript numbers ------------------------- *)
\* A JS number (or a JSON value found where a number is expected):
\*   kind "int"    : the safe integer val
\*   kind "frac"   : the non-integer val + 1/2
\*   kind "huge"   : an integer beyond Number.MAX_SAFE_INTEGER, sign of val
\*   kind "string" : a JSON string (not a number at all)
Num(n) == [kind |-> "int", val |-> n]
Frac(n) == [kind |-> "frac", val |-> n]
Huge == [kind |-> "huge", val |-> 1]
Str == [kind |-> "string", val |-> 0]

\* Number.isSafeInteger(x)
IsSafeInteger(x) == x.kind = "int"

\* x <= 0 on JS numbers
LeqZero(x) == IF x.kind = "int" THEN x.val <= 0 ELSE x.val < 0

\* x < 0 on JS numbers
LtZero(x) == x.val < 0

(* ------------------------- createPaginationChunks --------------------- *)
NoError == [name |-> "none", status |-> 0, url |-> "none", from |-> 0]
TypeError == [name |-> "TypeError", status |-> 0, url |-> "none", from |-> 0]

\* guard of the first throw
PageSizeInvalid(pageSize) == ~IsSafeInteger(pageSize) \/ LeqZero(pageSize)

\* the second guard written like the first one
TotalInvalidLeq(total) == ~IsSafeInteger(total) \/ LeqZero(total)

\* guard of the second throw
TotalInvalid(total) == ~IsSafeInteger(total) \/ LtZero(total)

\* the page count taken as the rounded-down quotient plus one
pageCountFloorPlusOne(pageSize, total) == total \div pageSize + 1

\* Math.ceil(total / pageSize) for total >= 0, pageSize >= 1
pageCount(pageSize, total) == (total + pageSize - 1) \div pageSize

\* the last page's size taken as the remainder
lastPageSizeMod(pageSize, total) == total % pageSize

lastPageSize(pageSize, total) == total - pageSize * (pageCount(pageSize, total) - 1)

\* the element the map callback builds for the 0-based index
Chunk(pageSize, total, index) ==
    [startAt |-> index * pageSize,
     pageSize |-> IF index = pageCount(pageSize, total) - 1
                  THEN lastPageSize(pageSize, total) ELSE pageSize]

\* outcome of a call: a thrown TypeError or the returned array
createPaginationChunks(opts) ==
    IF PageSizeInvalid(opts.pageSize) THEN [threw |-> TRUE, error |-> TypeError, value |-> <<>>]
    ELSE IF TotalInvalid(opts.total) THEN [threw |-> TRUE, error |-> TypeError, value |-> <<>>]
    ELSE [threw |-> FALSE, error |-> NoError,
          value |-> [i \in 1..pageCount(opts.pageSize.val, opts.total.val) |->
                        Chunk(opts.pageSize.val, opts.total.val, i - 1)]]

(* ------------------------- URL search parameters ---------------------- *)
\* String(n) for a non-negative integer: its decimal digits
RECURSIVE String(_)
String(n) == IF n < 10 THEN <<n>> ELSE Append(String(n \div 10), n % 10)

\* Number(s) for a string of decimal digits
RECURSIVE Number(_)
Number(s) ==
    IF Len(s) = 0 THEN 0
    ELSE 10 * Number(SubSeq(s, 1, Len(s) - 1)) + s[Len(s)]

\* const initialMaxResults = "10000"
initialMaxResults == <<1, 0, 0, 0, 0>>

\* the search parameters of the URL object after the first four set() calls
InitialUrl == [startAt |-> <<0>>, maxResults |-> initialMaxResults]

\* only startAt is set; maxResults keeps what the URL held
SetWindowStartOnly(u, window) == [u EXCEPT !.startAt = String(window.startAt)]

\* the two searchParams.set calls at the head of the map callback
SetWindowParams(u, window) ==
    [u EXCEPT !.startAt = String(window.startAt),
              !.maxResults = String(window.pageSize)]

(* ------------------------------ errors -------------------------------- *)
\* new JiraResponseError({url, status, message}): url is stored as given, so
\* for the search requests it is a reference to the one URL object
JiraResponseError(urlRef, status, from) ==
    [name |-> "JiraResponseError", status |-> status, url |-> urlRef, from |-> from]

ZodError(from) == [name |-> "ZodError", status |-> 0, url |-> "none", from |-> from]

\* no status is rejected
StatusUnchecked(status) == FALSE

\* only server errors are rejected
StatusServerError(status) == status >= 500

\* res.status !== 200
StatusNotOk(status) == status # 200

(* ------------------------------ schemas ------------------------------- *)
\* z.number()
IsZodNumber(j) == j.kind \in {"int", "frac", "huge"}

\* the schema with a page required to be as long as maxResults
IssuesSchemaAcceptsFullPage(body) ==
    /\ body.shape = "page"
    /\ IsZodNumber(body.startAt)
    /\ IsZodNumber(body.maxResults)
    /\ IsZodNumber(body.total)
    /\ body.maxResults.kind = "int"
    /\ Len(body.issues) = body.maxResults.val

\* the schema without its number fields
IssuesSchemaAcceptsShape(body) == body.shape = "page"

\* GetIssuesByComponentsResponseSchema accepts the body
IssuesSchemaAccepts(body) ==
    /\ body.shape = "page"
    /\ IsZodNumber(body.startAt)
    /\ IsZodNumber(body.maxResults)
    /\ IsZodNumber(body.total)

\* GetIssuesByComponentsResponseSchema.parse(body) of an accepted body:
\* the declared keys only
IssuesSchemaParse(body) ==
    [startAt |-> body.startAt, maxResults |-> body.maxResults,
     total |-> body.total, issues |-> body.issues]

\* JSON values found in a component: a string, or a number where a string
\* is expected
JString(text) == [type |-> "string", text |-> text]
JNumber(text) == [type |-> "number", text |-> text]

\* z.string()
IsZodString(j) == j.type = "string"

\* the element schema with an unchecked lead
ComponentAcceptsAnyLead(c) == IsZodString(c.id) /\ IsZodString(c.name)

\* one element of GetComponentsResponseSchema: id, name, optional lead
ComponentAccepts(c) ==
    /\ IsZodString(c.id)
    /\ IsZodString(c.name)
    /\ c.lead \in {"absent", "user"}

\* GetComponentsResponseSchema accepts the body: an array of components
ComponentsSchemaAccepts(body) ==
    /\ body.shape = "array"
    /\ \A k \in 1..Len(body.items) : ComponentAccepts(body.items[k])

\* GetComponentsResponseSchema.parse(body) of an accepted body: the declared
\* keys of every element, in the body's order
ComponentsSchemaParse(body) ==
    [k \in 1..Len(body.items) |->
        [id |-> body.items[k].id.text, name |-> body.items[k].name.text,
         lead |-> body.items[k].lead]]

(* --------------------------- the search server ------------------------ *)
\* fields.components of the issue at an index of the server's list; one
\* issue names the same component twice
FixtureComponents(index) ==
    CASE index = 0 -> <<[id |-> "10130", name |-> "Backend"]>>
      [] index = 1 -> <<[id |-> "10128", name |-> "Synchronization"],
                        [id |-> "10128", name |-> "Synchronization"]>>
      [] index = 2 -> <<[id |-> "10130", name |-> "Backend"],
                        [id |-> "10131", name |-> "Templates"]>>
      [] OTHER -> <<>>

\* the issues the server holds, in index order
ServerIssues(T) == [i \in 1..T |-> [id |-> i - 1, components |-> FixtureComponents(i - 1)]]

Min(a, b) == IF a <= b THEN a ELSE b

\* the issues with index in [startAt, startAt + count)
IssueWindow(T, startAt, count) ==
    SubSeq(ServerIssues(T), startAt + 1, Min(startAt + count, T))

\* the page a capping server answers a request with
MockPage(srv, href) ==
    [shape |-> "page",
     startAt |-> Num(Number(href.startAt)),
     maxResults |-> Num(srv.M),
     total |-> Num(srv.T),
     issues |-> IssueWindow(srv.T, Number(href.startAt),
                            Min(srv.M, Number(href.maxResults)))]

\* a body that is not an issue page, such as { abc: "xyz" }
OtherBody == [shape |-> "other", startAt |-> Str, maxResults |-> Str,
              total |-> Str, issues |-> <<>>]

\* s without its last element
DropLast(s) == SubSeq(s, 1, Len(s) - 1)

\* values a server may put in a numeric field of the first page
ReportedNumbers == {Num(n) : n \in -1..MaxTotal} \cup {Frac(1), Huge, Str}

\* bodies the first request may be answered with
FirstBodies(srv, href) ==
    {OtherBody} \cup
    {[MockPage(srv, href) EXCEPT !.maxResults = m, !.total = t, !.issues = b] :
        m \in ReportedNumbers, t \in ReportedNumbers,
        b \in {MockPage(srv, href).issues, DropLast(MockPage(srv, href).issues)}}

\* bodies a follow-up request may be answered with
FollowUpBodies(srv, href) ==
    {OtherBody} \cup
    {[MockPage(srv, href) EXCEPT !.startAt = f[1], !.maxResults = f[2],
                                 !.total = f[3], !.issues = b] :
        f \in {<<MockPage(srv, href).startAt, Num(srv.M), Num(srv.T)>>,
               <<Num(0), Num(srv.M + 1), Num(srv.T + 1)>>},
        b \in {MockPage(srv, href).issues, DropLast(MockPage(srv, href).issues)}}

Statuses == {200, 400, 500}

(* ------------------------------ getComponents ------------------------ *)
\* `${baseUrl}/rest/api/3/project/${projectId}/components`
ComponentsUrl(config) == <<config.baseUrl, "/rest/api/3/project/", config.projectId, "/components">>

\* elements a components response may hold: without lead, with lead, with
\* an undeclared key, with a mistyped id, with a malformed lead
RawComponents ==
    {[id |-> JString("10130"), name |-> JString("Backend"), lead |-> "absent", self |-> FALSE],
     [id |-> JString("10128"), name |-> JString("Synchronization"), lead |-> "absent", self |-> TRUE],
     [id |-> JString("10131"), name |-> JString("Templates"), lead |-> "user", self |-> TRUE],
     [id |-> JNumber("10132"), name |-> JString("Data"), lead |-> "absent", self |-> FALSE],
     [id |-> JString("10133"), name |-> JString("UI"), lead |-> "malformed", self |-> FALSE]}

\* sequences over S of length at most n
SeqUpTo(S, n) == UNION {[1..k -> S] : k \in 0..n}

\* bodies the components request may be answered with
ComponentBodies ==
    {[shape |-> "object", items |-> <<>>]} \cup
    {[shape |-> "array", items |-> items] : items \in SeqUpTo(RawComponents, MaxComponents)}

(* --------------------------- getIssuesByComponents -------------------- *)
\* the planner's windows without the slice
RestWindowsAll(windows) == windows

\* createPaginationChunks(...).slice(1)
RestWindows(windows) == SubSeq(windows, 2, Len(windows))

\* the URL object after the synchronous head of the first n map callbacks
RECURSIVE UrlAfter(_, _, _)
UrlAfter(u, windows, n) ==
    IF n = 0 THEN u ELSE SetWindowParams(UrlAfter(u, windows, n - 1), windows[n])

\* the request carries what the URL holds once every callback has run
FetchedHrefLate(u, windows, i) == UrlAfter(u, windows, Len(windows))

\* fetch(url) in the i-th map callback: the request carries the URL's
\* contents at the time of the call
FetchedHref(u, windows, i) == UrlAfter(u, windows, i)

\* the batch goes to the first free slot, whatever its index
ResolveElementByArrival(values, index, batch) ==
    LET free == CHOOSE j \in 1..Len(values) :
                    ~values[j].done /\ \A l \in 1..(j - 1) : values[l].done
    IN  [values EXCEPT ![free] = [done |-> TRUE, batch |-> batch]]

\* Promise.all: the slot of the index-th input promise is filled
ResolveElement(values, index, batch) ==
    [values EXCEPT ![index] = [done |-> TRUE, batch |-> batch]]

\* some slot is filled
AnyFulfilled(values) == \E j \in 1..Len(values) : values[j].done

\* Promise.all: no input promise remains unfulfilled
AllFulfilled(values) == \A j \in 1..Len(values) : values[j].done

\* [firstIssueBatch, ...restIssueBatches].flat()
RECURSIVE Flat(_)
Flat(batches) ==
    IF Len(batches) = 0 THEN <<>> ELSE Head(batches) \o Flat(Tail(batches))

Pending == [state |-> "pending", value |-> <<>>, error |-> NoError]
Fulfilled(v) == [state |-> "fulfilled", value |-> v, error |-> NoError]
Rejected(e) == [state |-> "rejected", value |-> <<>>, error |-> e]

\* every later rejection replaces the outcome
RejectAgain(o, p, e, cbs) == Rejected(e)

\* the rejection waits until every callback has settled
RejectWhenSettled(o, p, e, cbs) ==
    IF o.state = "pending" /\ \A j \in 1..Len(cbs) : cbs[j] \in {"returned", "threw"}
    THEN Rejected(e) ELSE o

\* await Promise.all(...): a callback (the others now being at cbs) threw e
\* while the Promise.all promise was p; the first rejection rejects the
\* caller, later ones are ignored
RejectOnce(o, p, e, cbs) == IF p.state = "pending" THEN Rejected(e) ELSE o

NoResponse == [status |-> 0, read |-> FALSE, body |-> OtherBody]

\* the log of responses once the body of request k has been read
Received(log, k, body) == [log EXCEPT ![k].read = TRUE, ![k].body = body]

(* ------------------------------ state --------------------------------- *)
VARIABLES
    opts,       \* planner specification: the argument of createPaginationChunks
    chunks,     \* planner specification: the outcome of the call, once made
    server,     \* the search server: T issues held, page cap M
    pc,         \* position of getIssuesByComponents
    url,        \* search parameters of the one URL object of the call
    requestHistory, \* the search requests sent, in order, as sent
    responses,  \* per request: the status and body received so far
    firstIssueBatch,
    rest,       \* restIssueBatchesPagination
    cb,         \* position of each map callback
    all,        \* the Promise.all promise
    outcome,    \* the promise getIssuesByComponents returned
    settled,    \* the requests whose handling returned or threw, in that order
    config,     \* the JiraAPI instance's config
    compPc,     \* position of getComponents
    compRequests,   \* the URLs getComponents fetched, in order
    compRes,    \* the response to the components request
    compOutcome,    \* the promise getComponents returned
    argv,       \* the command line of app(): valid, or an option missing
    appPc,      \* position of app()
    query,      \* componentIds of the getIssuesByComponents call
    report,     \* what getJiraComponentsWithoutLead returned
    stdout,     \* lines written with console.log
    stderr,     \* lines written with console.error
    exitCode,   \* process.exitCode, -1 while not set
    appOutcome  \* the promise app() returned

plannerVars == <<opts, chunks>>
issueVars == <<server, pc, url, requestHistory, responses, firstIssueBatch, rest,
               cb, all, outcome, settled>>
compVars == <<config, compPc, compRequests, compRes, compOutcome>>
appVars == <<argv, appPc, query, report, stdout, stderr, exitCode, appOutcome>>
vars == <<opts, chunks, server, pc, url, requestHistory, responses,
          firstIssueBatch, rest, cb, all, outcome, settled,
          config, compPc, compRequests, compRes, compOutcome,
          argv, appPc, query, report, stdout, stderr, exitCode, appOutcome>>

NotCalled == [called |-> FALSE, threw |-> FALSE, error |-> NoError, value |-> <<>>]
Settle(k, e) == [from |-> k, error |-> e]
TestConfig == [baseUrl |-> "https://xxx.atlassian.net", projectId |-> "XYZ"]
NoPromiseAll == [state |-> "none", values |-> <<>>, reason |-> NoError]

IssuesIdle ==
    /\ pc = "idle"
    /\ url = InitialUrl
    /\ requestHistory = <<>>
    /\ responses = <<>>
    /\ firstIssueBatch = <<>>
    /\ rest = <<>>
    /\ cb = <<>>
    /\ all = NoPromiseAll
    /\ outcome = Pending
    /\ settled = <<>>

Configs == [baseUrl : {"https://xxx.atlassian.net"}, projectId : {"XYZ", "SP"}]
NoRes == [status |-> 0, body |-> [shape |-> "object", items |-> <<>>]]

ComponentsIdle ==
    /\ compPc = "idle"
    /\ compRequests = <<>>
    /\ compRes = NoRes
    /\ compOutcome = Pending

\* const query = { componentIds: ["a", "b", "c"] } of the client's tests
TestQuery == <<"a", "b", "c">>

AppIdle ==
    /\ argv = "valid"
    /\ appPc = "idle"
    /\ query = TestQuery
    /\ report = <<>>
    /\ stdout = <<>>
    /\ stderr = <<>>
    /\ exitCode = -1
    /\ appOutcome = Pending

PlannerIdle ==
    /\ opts = [pageSize |-> Num(1), total |-> Num(0)]
    /\ chunks = NotCalled

(* ----------------------- planner specification ------------------------ *)
\* numbers the planner is called with
PlannerArgs == {Num(n) : n \in -2..MaxArg} \cup {Frac(n) : n \in -2..1} \cup {Huge}

InitPlanner ==
    /\ opts \in [pageSize : PlannerArgs, total : PlannerArgs]
    /\ chunks = NotCalled
    /\ server = [T |-> 0, M |-> 1]
    /\ IssuesIdle
    /\ config = TestConfig
    /\ ComponentsIdle
    /\ AppIdle

CallPlanner ==
    /\ ~chunks.called
    /\ chunks' = [called |-> TRUE] @@ createPaginationChunks(opts)
    /\ UNCHANGED opts
    /\ UNCHANGED issueVars
    /\ UNCHANGED <<compVars, appVars>>

NextPlanner == CallPlanner

SpecPlanner == InitPlanner /\ [][NextPlanner]_vars

(* ------------------ getIssuesByComponents specification --------------- *)
Init ==
    /\ PlannerIdle
    /\ server \in [T : 0..MaxTotal, M : 1..MaxCap]
    /\ IssuesIdle
    /\ config = TestConfig
    /\ ComponentsIdle
    /\ AppIdle

\* the call, up to the first await
Call ==
    /\ pc = "idle"
    /\ url' = InitialUrl
    /\ requestHistory' = <<InitialUrl>>
    /\ responses' = <<NoResponse>>
    /\ pc' = "awaitFirstRes"
    /\ UNCHANGED <<server, firstIssueBatch, rest, cb, all, outcome, settled>>
    /\ UNCHANGED <<plannerVars, compVars, appVars>>

\* the first fetch settles: status check, then res.json() is awaited
FirstRes(status) ==
    /\ pc = "awaitFirstRes"
    /\ responses' = [responses EXCEPT ![1].status = status]
    /\ IF StatusNotOk(status)
       THEN /\ outcome' = Rejected(JiraResponseError("searchUrl", status, 1))
            /\ settled' = Append(settled, Settle(1, JiraResponseError("searchUrl", status, 1)))
            /\ pc' = "done"
       ELSE /\ outcome' = outcome
            /\ settled' = settled
            /\ pc' = "awaitFirstJson"
    /\ UNCHANGED <<server, url, requestHistory, firstIssueBatch, rest, cb, all>>
    /\ UNCHANGED <<plannerVars, compVars, appVars>>

\* the first body arrives: parse, plan, fan out, await Promise.all
FirstJson(body) ==
    /\ pc = "awaitFirstJson"
    /\ IF ~IssuesSchemaAccepts(body)
       THEN /\ outcome' = Rejected(ZodError(1))
            /\ settled' = Append(settled, Settle(1, ZodError(1)))
            /\ pc' = "done"
            /\ responses' = Received(responses, 1, body)
            /\ UNCHANGED <<url, requestHistory, firstIssueBatch, rest, cb, all>>
       ELSE LET firstData == IssuesSchemaParse(body)
                plan == createPaginationChunks([pageSize |-> firstData.maxResults,
                                                total |-> firstData.total])
                windows == RestWindows(plan.value)
                n == Len(windows)
            IN  /\ firstIssueBatch' = firstData.issues
                /\ IF plan.threw
                   THEN /\ outcome' = Rejected(plan.error)
                        /\ settled' = Append(settled, Settle(1, plan.error))
                        /\ pc' = "done"
                        /\ responses' = Received(responses, 1, body)
                        /\ UNCHANGED <<url, requestHistory, rest, cb, all>>
                   ELSE /\ rest' = windows
                        /\ settled' = Append(settled, Settle(1, NoError))
                        /\ responses' = Received(responses, 1, body) \o
                               [i \in 1..n |-> NoResponse]
                        /\ url' = UrlAfter(url, windows, n)
                        /\ requestHistory' = requestHistory \o
                               [i \in 1..n |-> FetchedHref(url, windows, i)]
                        /\ cb' = [i \in 1..n |-> "awaitRes"]
                        /\ all' = [state |-> IF n = 0 THEN "fulfilled" ELSE "pending",
                                   values |-> [i \in 1..n |-> [done |-> FALSE, batch |-> <<>>]],
                                   reason |-> NoError]
                        /\ outcome' = IF n = 0 THEN Fulfilled(Flat(<<firstData.issues>>))
                                      ELSE outcome
                        /\ pc' = IF n = 0 THEN "done" ELSE "awaitAll"
    /\ UNCHANGED server
    /\ UNCHANGED <<plannerVars, compVars, appVars>>

\* the i-th callback's fetch settles: status check, then res.json() is awaited;
\* a throw rejects the callback's promise, and Promise.all with it
CbRes(i, status) ==
    /\ i \in 1..Len(cb)
    /\ cb[i] = "awaitRes"
    /\ responses' = [responses EXCEPT ![i + 1].status = status]
    /\ IF StatusNotOk(status)
       THEN /\ cb' = [cb EXCEPT ![i] = "threw"]
            /\ settled' = Append(settled, Settle(i + 1, JiraResponseError("searchUrl", status, i + 1)))
            /\ LET e == JiraResponseError("searchUrl", status, i + 1)
               IN  /\ all' = IF all.state = "pending"
                             THEN [all EXCEPT !.state = "rejected", !.reason = e]
                             ELSE all
                   /\ outcome' = RejectOnce(outcome, all, e, cb')
                   /\ pc' = IF outcome'.state = "pending" THEN pc ELSE "done"
       ELSE /\ cb' = [cb EXCEPT ![i] = "awaitJson"]
            /\ UNCHANGED <<all, outcome, pc, settled>>
    /\ UNCHANGED <<server, url, requestHistory, firstIssueBatch, rest>>
    /\ UNCHANGED <<plannerVars, compVars, appVars>>

\* the i-th callback's body arrives: parse, return the batch; Promise.all
\* fills the slot and, once every slot is filled, the caller resumes and
\* returns the flattened batches
CbJson(i, body) ==
    /\ i \in 1..Len(cb)
    /\ cb[i] = "awaitJson"
    /\ responses' = Received(responses, i + 1, body)
    /\ IF ~IssuesSchemaAccepts(body)
       THEN /\ cb' = [cb EXCEPT ![i] = "threw"]
            /\ settled' = Append(settled, Settle(i + 1, ZodError(i + 1)))
            /\ all' = IF all.state = "pending"
                      THEN [all EXCEPT !.state = "rejected", !.reason = ZodError(i + 1)]
                      ELSE all
            /\ outcome' = RejectOnce(outcome, all, ZodError(i + 1), cb')
            /\ pc' = IF outcome'.state = "pending" THEN pc ELSE "done"
       ELSE LET values == ResolveElement(all.values, i, IssuesSchemaParse(body).issues)
                settles == all.state = "pending" /\ AllFulfilled(values)
            IN  /\ cb' = [cb EXCEPT ![i] = "returned"]
                /\ settled' = Append(settled, Settle(i + 1, NoError))
                /\ all' = [all EXCEPT !.values = values,
                                      !.state = IF settles THEN "fulfilled" ELSE @]
                /\ outcome' = IF settles
                              THEN Fulfilled(Flat(<<firstIssueBatch>> \o
                                       [j \in 1..Len(values) |-> values[j].batch]))
                              ELSE outcome
                /\ pc' = IF settles THEN "done" ELSE pc
    /\ UNCHANGED <<server, url, requestHistory, firstIssueBatch, rest>>
    /\ UNCHANGED <<plannerVars, compVars, appVars>>

Next ==
    \/ Call
    \/ \E status \in Statuses : FirstRes(status)
    \/ /\ pc = "awaitFirstJson"
       /\ \E body \in FirstBodies(server, requestHistory[1]) : FirstJson(body)
    \/ \E i \in 1..Len(cb), status \in Statuses : CbRes(i, status)
    \/ \E i \in 1..Len(cb) :
         \E body \in FollowUpBodies(server, requestHistory[i + 1]) : CbJson(i, body)

Spec == Init /\ [][Next]_vars

\* the first request is answered: its status, or its body, arrives
RespondFirst ==
    \/ \E status \in Statuses : FirstRes(status)
    \/ /\ pc = "awaitFirstJson"
       /\ \E body \in FirstBodies(server, requestHistory[1]) : FirstJson(body)

\* the i-th follow-up request is answered: its status, or its body, arrives
Respond(i) ==
    /\ i \in 1..Len(cb)
    /\ \/ \E status \in Statuses : CbRes(i, status)
       \/ \E body \in FollowUpBodies(server, requestHistory[i + 1]) : CbJson(i, body)

\* every request sent is eventually answered
LiveSpec ==
    /\ Spec
    /\ WF_vars(RespondFirst)
    /\ \A i \in 1..(MaxTotal + 1) : WF_vars(Respond(i))

\* the search parameters read from the URL an error carries, at the time
\* they are read: the error holds the URL object itself
ErrorHref(e) == url

(* ----------------------- getComponents specification ------------------ *)
InitComponents ==
    /\ PlannerIdle
    /\ server = [T |-> 0, M |-> 1]
    /\ IssuesIdle
    /\ config \in Configs
    /\ ComponentsIdle
    /\ AppIdle

\* the call, up to the first await
CompCall ==
    /\ compPc = "idle"
    /\ compRequests' = Append(compRequests, ComponentsUrl(config))
    /\ compPc' = "awaitRes"
    /\ UNCHANGED <<config, compRes, compOutcome>>
    /\ UNCHANGED <<plannerVars, issueVars, appVars>>

\* the fetch settles with a response: status check, then res.json() is awaited
CompRes(res) ==
    /\ compPc = "awaitRes"
    /\ compRes' = res
    /\ IF StatusNotOk(res.status)
       THEN /\ compOutcome' = Rejected(JiraResponseError("componentsUrl", res.status, 1))
            /\ compPc' = "done"
       ELSE /\ compOutcome' = compOutcome
            /\ compPc' = "awaitJson"
    /\ UNCHANGED <<config, compRequests>>
    /\ UNCHANGED <<plannerVars, issueVars, appVars>>

\* the body is read: parse and return
CompJson ==
    /\ compPc = "awaitJson"
    /\ compOutcome' = IF ComponentsSchemaAccepts(compRes.body)
                      THEN Fulfilled(ComponentsSchemaParse(compRes.body))
                      ELSE Rejected(ZodError(1))
    /\ compPc' = "done"
    /\ UNCHANGED <<config, compRequests, compRes>>
    /\ UNCHANGED <<plannerVars, issueVars, appVars>>

NextComponents ==
    \/ CompCall
    \/ \E res \in [status : Statuses, body : ComponentBodies] : CompRes(res)
    \/ CompJson

SpecComponents == InitComponents /\ [][NextComponents]_vars

(* ------------------- getJiraComponentsWithoutLead, app ---------------- *)
\* !component.lead
WithoutLead(component) == component.lead = "absent"

\* the early return is never taken
NoneWithoutLeadNever(components) == FALSE

\* componentsWithoutLead.length === 0
NoneWithoutLead(components) == Len(components) = 0

\* componentsWithoutLead.map((component) => component.id)
ComponentIds(components) == [k \in 1..Len(components) |-> components[k].id]

\* the components named by the issues, issue after issue: one element for
\* each turn of the inner loop
RECURSIVE ComponentsNamed(_)
ComponentsNamed(issues) ==
    IF Len(issues) = 0 THEN <<>>
    ELSE Head(issues).components \o ComponentsNamed(Tail(issues))

\* issuesCountByComponentId.get(id) ?? 0 after the loops: one increment for
\* each turn of the inner loop that names id
IssuesCount(issues, id) ==
    Len(SelectSeq(ComponentsNamed(issues), LAMBDA c : c.id = id))

\* the value getJiraComponentsWithoutLead returns
ComponentsReport(componentsWithoutLead, issues) ==
    [k \in 1..Len(componentsWithoutLead) |->
        [id |-> componentsWithoutLead[k].id,
         name |-> componentsWithoutLead[k].name,
         issues |-> IssuesCount(issues, componentsWithoutLead[k].id)]]

\* a line of output
Line(tag) == [line |-> tag, id |-> "", name |-> "", issues |-> 0]

\* the lines app() logs for a report
ReportLines(components) ==
    IF Len(components) = 0
    THEN <<Line("none detected")>>
    ELSE <<Line("detected")>> \o
         [k \in 1..Len(components) |->
            [line |-> "component", id |-> components[k].id,
             name |-> components[k].name, issues |-> components[k].issues]]

\* the error program.parse() throws under exitOverride()
CommanderError == [name |-> "CommanderError", status |-> 0, url |-> "none", from |-> 0]

\* only a CommanderError is handled
CaughtIfCommander(e) == e.name = "CommanderError"

\* catch (error): every error thrown in the try block is handled
Caught(e) == TRUE

\* the lines the catch block writes
CatchLines(e) ==
    (IF e.name = "CommanderError" THEN <<Line("blank")>>
     ELSE <<[Line("error") EXCEPT !.name = e.name], Line("blank")>>)
    \o <<Line("oops"), Line("see above")>>

\* the try block threw e: the catch block, and app() resolves
AppCatch(e) ==
    /\ appPc' = "done"
    /\ IF Caught(e)
       THEN /\ stderr' = stderr \o CatchLines(e)
            /\ exitCode' = 1
            /\ appOutcome' = Fulfilled(<<>>)
       ELSE /\ appOutcome' = Rejected(e)
            /\ UNCHANGED <<stderr, exitCode>>

InitApp ==
    /\ PlannerIdle
    /\ server = [T |-> MaxTotal, M |-> MaxCap]
    /\ IssuesIdle
    /\ config = TestConfig
    /\ ComponentsIdle
    /\ argv \in {"valid", "missing option"}
    /\ appPc = "idle"
    /\ query = <<>>
    /\ report = <<>>
    /\ stdout = <<>>
    /\ stderr = <<>>
    /\ exitCode = -1
    /\ appOutcome = Pending

\* app() up to the call of getJiraComponentsWithoutLead
AppStart ==
    /\ appPc = "idle"
    /\ IF argv = "valid"
       THEN /\ stdout' = <<Line("title"), Line("arguments")>>
            /\ appPc' = "components"
            /\ UNCHANGED <<stderr, exitCode, appOutcome>>
       ELSE /\ stdout' = <<Line("title")>>
            /\ AppCatch(CommanderError)
    /\ UNCHANGED <<argv, query, report>>
    /\ UNCHANGED <<plannerVars, issueVars, compVars>>

\* getComponents has settled: getJiraComponentsWithoutLead resumes, filters,
\* and returns early or goes on to getIssuesByComponents
AppAfterComponents ==
    /\ appPc = "components"
    /\ compOutcome.state # "pending"
    /\ IF compOutcome.state = "rejected"
       THEN /\ AppCatch(compOutcome.error)
            /\ UNCHANGED <<query, report, stdout>>
       ELSE LET componentsWithoutLead == SelectSeq(compOutcome.value, WithoutLead)
            IN  IF NoneWithoutLead(componentsWithoutLead)
                THEN /\ report' = <<>>
                     /\ stdout' = stdout \o ReportLines(<<>>)
                     /\ exitCode' = 0
                     /\ appOutcome' = Fulfilled(<<>>)
                     /\ appPc' = "done"
                     /\ UNCHANGED <<query, stderr>>
                ELSE /\ query' = ComponentIds(componentsWithoutLead)
                     /\ appPc' = "issues"
                     /\ UNCHANGED <<report, stdout, stderr, exitCode, appOutcome>>
    /\ UNCHANGED argv
    /\ UNCHANGED <<plannerVars, issueVars, compVars>>

\* getIssuesByComponents has settled: getJiraComponentsWithoutLead counts
\* and returns, app() logs the report
AppAfterIssues ==
    /\ appPc = "issues"
    /\ outcome.state # "pending"
    /\ IF outcome.state = "rejected"
       THEN /\ AppCatch(outcome.error)
            /\ UNCHANGED <<report, stdout>>
       ELSE LET components ==
                    ComponentsReport(SelectSeq(compOutcome.value, WithoutLead),
                                     outcome.value)
            IN  /\ report' = components
                /\ stdout' = stdout \o ReportLines(components)
                /\ exitCode' = 0
                /\ appOutcome' = Fulfilled(<<>>)
                /\ appPc' = "done"
                /\ UNCHANGED stderr
    /\ UNCHANGED <<argv, query>>
    /\ UNCHANGED <<plannerVars, issueVars, compVars>>

\* the continuations of app() are steps of their own; between a client
\* call settling and its continuation only answers to sibling requests can
\* arrive, and the continuation does not read them
NextApp ==
    \/ AppStart
    \/ /\ appPc = "components"
       /\ \/ CompCall
          \/ \E res \in [status : Statuses, body : ComponentBodies] : CompRes(res)
          \/ CompJson
    \/ AppAfterComponents
    \/ /\ appPc = "issues"
       /\ \/ Call
          \/ RespondFirst
          \/ \E i \in 1..Len(cb) : Respond(i)
    \/ AppAfterIssues

SpecApp == InitApp /\ [][NextApp]_vars

(* ======================= properties of the planner ==================== *)
\* the planner's argument is a positive integer pageSize and a non-negative
\* integer total
ValidPlannerInput(o) ==
    /\ o.pageSize.kind = "int" /\ o.pageSize.val >= 1
    /\ o.total.kind = "int" /\ o.total.val >= 0

RECURSIVE SumPageSizes(_)
SumPageSizes(windows) ==
    IF Len(windows) = 0 THEN 0
    ELSE Head(windows).pageSize + SumPageSizes(Tail(windows))

\* the windows covering the offset x
Covering(windows, x) ==
    {i \in 1..Len(windows) :
        windows[i].startAt <= x /\ x < windows[i].startAt + windows[i].pageSize}

\* C6: for a positive integer pageSize P and a non-negative integer total T
\* the planner returns windows such that window i starts at i*P, the sizes
\* sum to T, and every offset of [0, T) lies in exactly one window while no
\* window reaches outside [0, T).
C6_WindowsTile ==
    (chunks.called /\ ValidPlannerInput(opts)) =>
        LET P == opts.pageSize.val
            T == opts.total.val
            w == chunks.value
        IN  /\ ~chunks.threw
            /\ \A i \in 1..Len(w) : w[i].startAt = (i - 1) * P
            /\ SumPageSizes(w) = T
            /\ \A x \in 0..(T - 1) : Cardinality(Covering(w, x)) = 1
            /\ \A i \in 1..Len(w) :
                 w[i].startAt >= 0 /\ w[i].startAt + w[i].pageSize <= T

\* a call that returned three windows, the last one shorter than the others
C6_Witness ==
    /\ chunks.called /\ ~chunks.threw
    /\ Len(chunks.value) = 3
    /\ chunks.value[3].pageSize < chunks.value[1].pageSize

\* C7: the planner throws its TypeError, returning no windows, exactly when
\* pageSize is not a positive (safe) integer or total is not a non-negative
\* (safe) integer; on every valid input it returns.
C7_ThrowsIffInvalid ==
    chunks.called =>
        /\ chunks.threw <=> ~ValidPlannerInput(opts)
        /\ chunks.threw => (chunks.error.name = "TypeError" /\ chunks.value = <<>>)

\* a call rejected for a non-integer total although pageSize is valid
C7_Witness ==
    /\ chunks.called /\ chunks.threw
    /\ opts.pageSize.kind = "int" /\ opts.pageSize.val >= 1
    /\ opts.total.kind = "frac"

(* ================== properties of getIssuesByComponents =============== *)
\* the requests sent, their parameters read as numbers
SentParams ==
    [k \in 1..Len(requestHistory) |->
        [startAt |-> Number(requestHistory[k].startAt),
         maxResults |-> Number(requestHistory[k].maxResults)]]

\* C1: when the operation returns, its result is the first batch followed
\* by the follow-up batches by ascending startAt of their requests, whatever
\* the order in which the follow-up requests completed.
C1_WindowOrder ==
    outcome.state = "fulfilled" =>
        /\ \A k \in 1..(Len(requestHistory) - 1) :
             SentParams[k].startAt < SentParams[k + 1].startAt
        /\ outcome.value =
             Flat([k \in 1..Len(requestHistory) |-> responses[k].body.issues])

\* a return after the second follow-up completed before the first, both
\* with issues
C1_Witness ==
    /\ outcome.state = "fulfilled"
    /\ Len(settled) = 3
    /\ settled[2].from = 3 /\ settled[3].from = 2
    /\ Len(responses[2].body.issues) >= 1
    /\ Len(responses[3].body.issues) >= 1

\* every response so far is the capping server's: status 200 and its page
CappingServer ==
    \A k \in 1..Len(responses) :
        /\ responses[k].status \in {0, 200}
        /\ responses[k].read => responses[k].body = MockPage(server, requestHistory[k])

\* C2: against a server holding T issues that caps pages at M and reports
\* maxResults = M and total = T, the operation returns all T issues in index
\* order, each exactly once.
C2_AllIssuesOnce ==
    CappingServer =>
        /\ outcome.state # "rejected"
        /\ pc = "done" =>
             /\ outcome.state = "fulfilled"
             /\ Len(outcome.value) = server.T
             /\ \A i \in 1..server.T : outcome.value[i].id = i - 1

\* a return of three issues fetched by three requests
C2_Witness ==
    /\ CappingServer
    /\ pc = "done"
    /\ Len(requestHistory) = 3
    /\ Len(outcome.value) = 3

\* the requests claimed for a first page reporting page size M and total T
ClaimedRequests(M, T) ==
    LET count == IF T = 0 THEN 1 ELSE (T + M - 1) \div M
    IN  <<[startAt |-> 0, maxResults |-> 10000]>> \o
        [i \in 1..(count - 1) |->
            [startAt |-> i * M,
             maxResults |-> IF i = count - 1 THEN T - i * M ELSE M]]

\* the first page was read and reports a positive integer page size and a
\* non-negative integer total
FirstPagePlanned ==
    /\ Len(responses) >= 1
    /\ responses[1].read
    /\ responses[1].body.shape = "page"
    /\ responses[1].body.startAt.kind # "string"
    /\ responses[1].body.maxResults.kind = "int" /\ responses[1].body.maxResults.val >= 1
    /\ responses[1].body.total.kind = "int" /\ responses[1].body.total.val >= 0

\* C3: the first request is the probe (startAt 0, maxResults 10000) and
\* nothing else is sent before the first page is read; once a first page
\* reporting page size M and total T is read, the requests of the execution
\* are exactly the probe followed by one request per planner window i >= 1
\* with startAt = i*M and maxResults = the window's size: max(1, ceil(T/M))
\* requests, none repeated.
C3_ExactRequests ==
    /\ (Len(requestHistory) >= 1 /\ ~responses[1].read) =>
          SentParams = <<[startAt |-> 0, maxResults |-> 10000]>>
    /\ FirstPagePlanned =>
          SentParams = ClaimedRequests(responses[1].body.maxResults.val,
                                       responses[1].body.total.val)

\* a finished execution of three requests
C3_Witness ==
    /\ FirstPagePlanned
    /\ pc = "done" /\ outcome.state = "fulfilled"
    /\ Len(requestHistory) = 3
    /\ responses[1].body.maxResults.val < responses[1].body.total.val

\* the failures, in the order they were observed
Failures == SelectSeq(settled, LAMBDA e : e.error.name # "none")

\* the requests answered with a status other than 200
NotOkRequests == {k \in 1..Len(responses) : responses[k].status \notin {0, 200}}

\* the requests answered with status 200 and a body that is not an issue page
BadBodyRequests ==
    {k \in 1..Len(responses) :
        /\ responses[k].status = 200 /\ responses[k].read
        /\ \/ responses[k].body.shape # "page"
           \/ "string" \in {responses[k].body.startAt.kind,
                            responses[k].body.maxResults.kind,
                            responses[k].body.total.kind}}

\* C4 as stated: once any request returned a status other than 200, the
\* operation has failed with JiraResponseError.
C4_AnyNotOkGivesResponseError ==
    NotOkRequests # {} =>
        /\ outcome.state = "rejected"
        /\ outcome.error.name = "JiraResponseError"

\* C4 amended: once any request returned a status other than 200 the
\* operation has failed and returns no list; its error is that of the first
\* failure observed, a JiraResponseError with that request's status unless a
\* follow-up's ZodError was observed earlier.
C4_NotOkFails ==
    NotOkRequests # {} =>
        /\ outcome.state = "rejected"
        /\ outcome.value = <<>>
        /\ outcome.error = Failures[1].error
        /\ \/ /\ outcome.error.name = "JiraResponseError"
              /\ outcome.error.from \in NotOkRequests
              /\ outcome.error.status = responses[outcome.error.from].status
           \/ /\ outcome.error.name = "ZodError"
              /\ outcome.error.from >= 2
              /\ outcome.error.from \in BadBodyRequests

\* a follow-up answered 400 fails the operation although the first page and
\* another follow-up succeeded
C4_Witness ==
    /\ outcome.state = "rejected"
    /\ outcome.error.name = "JiraResponseError"
    /\ outcome.error.from >= 2
    /\ \E i \in 1..Len(cb) : cb[i] = "returned"

\* C5 as stated: once any request returned status 200 with a body that is
\* not an issue page, the operation has failed with ZodError.
C5_AnyBadBodyGivesZodError ==
    BadBodyRequests # {} =>
        /\ outcome.state = "rejected"
        /\ outcome.error.name = "ZodError"

\* C5 amended: once any request returned status 200 with a body that is not
\* an issue page the operation has failed and returns no list; its error is
\* that of the first failure observed, the parse's ZodError unless a
\* follow-up's JiraResponseError was observed earlier.
C5_BadBodyFails ==
    BadBodyRequests # {} =>
        /\ outcome.state = "rejected"
        /\ outcome.value = <<>>
        /\ outcome.error = Failures[1].error
        /\ \/ /\ outcome.error = ZodError(outcome.error.from)
              /\ outcome.error.from \in BadBodyRequests
           \/ /\ outcome.error.name = "JiraResponseError"
              /\ outcome.error.from >= 2
              /\ outcome.error.from \in NotOkRequests

\* a follow-up's bad body fails the operation although the first page and
\* another follow-up succeeded
C5_Witness ==
    /\ outcome.state = "rejected"
    /\ outcome.error.name = "ZodError"
    /\ outcome.error.from >= 2
    /\ \E i \in 1..Len(cb) : cb[i] = "returned"

\* C8: the operation never fails with the planner's TypeError.
C8_NeverInvalidArgument == outcome.error.name # "TypeError"

\* C9: a JiraResponseError of a follow-up request carries, when the caller
\* observes it, the search parameters and the status of the request that
\* failed.
C9_ErrorNamesFailingRequest ==
    (outcome.state = "rejected" /\ outcome.error.name = "JiraResponseError"
        /\ outcome.error.from >= 2) =>
        /\ ErrorHref(outcome.error) = requestHistory[outcome.error.from]
        /\ outcome.error.status = responses[outcome.error.from].status

(* ====================== properties of getComponents =================== *)
\* the body has the component-list shape
ComponentListShaped(body) ==
    /\ body.shape = "array"
    /\ \A k \in 1..Len(body.items) :
         /\ body.items[k].id.type = "string"
         /\ body.items[k].name.type = "string"
         /\ body.items[k].lead # "malformed"

\* C10: getComponents sends exactly one GET, and its outcome is decided by
\* that response: a status other than 200 gives JiraResponseError whatever
\* the body; status 200 with a body that is not a component list gives
\* ZodError; status 200 with a component list gives its elements in the
\* body's order, the empty array giving the empty list.
C10_ComponentsOutcome ==
    /\ Len(compRequests) <= 1
    /\ compPc = "done" =>
         /\ compRequests = <<ComponentsUrl(config)>>
         /\ compRes.status # 200 =>
              /\ compOutcome.state = "rejected"
              /\ compOutcome.error.name = "JiraResponseError"
              /\ compOutcome.error.status = compRes.status
         /\ (compRes.status = 200 /\ ~ComponentListShaped(compRes.body)) =>
              /\ compOutcome.state = "rejected"
              /\ compOutcome.error.name = "ZodError"
         /\ (compRes.status = 200 /\ ComponentListShaped(compRes.body)) =>
              /\ compOutcome.state = "fulfilled"
              /\ Len(compOutcome.value) = Len(compRes.body.items)
              /\ \A k \in 1..Len(compRes.body.items) :
                   /\ compOutcome.value[k].id = compRes.body.items[k].id.text
                   /\ compOutcome.value[k].name = compRes.body.items[k].name.text
                   /\ compOutcome.value[k].lead = compRes.body.items[k].lead

\* a returned list of two components, one with a lead before one without
C10_Witness ==
    /\ compPc = "done"
    /\ compOutcome.state = "fulfilled"
    /\ Len(compOutcome.value) = 2
    /\ compOutcome.value[1].lead = "user"
    /\ compOutcome.value[2].lead = "absent"


(* ============ properties of the fan-out and of Promise.all ============ *)
\* C14: every follow-up request carries the startAt and maxResults of the
\* window of its own callback, whichever callbacks have run or completed
\* since; the requests after the probe are the remaining planner windows,
\* one each.
C14_OwnWindowParams ==
    /\ Len(cb) > 0 => Len(requestHistory) = Len(rest) + 1
    /\ \A i \in 1..Len(cb) :
         SentParams[i + 1] = [startAt |-> rest[i].startAt,
                              maxResults |-> rest[i].pageSize]

\* the second follow-up has completed, the first is still in flight, and
\* the shared URL no longer holds the first follow-up's parameters
C14_Witness ==
    /\ Len(cb) = 2
    /\ cb[1] = "awaitRes" /\ cb[2] = "returned"
    /\ url # requestHistory[2]

\* C15: a follow-up request exists only once the first response came with
\* status 200 and a valid page; a first response with another status or an
\* invalid body fails the operation with one request sent in all.
C15_FirstPageGatesFollowUps ==
    /\ Len(requestHistory) >= 2 =>
         /\ responses[1].status = 200 /\ responses[1].read
         /\ 1 \notin BadBodyRequests
    /\ (1 \in NotOkRequests \/ 1 \in BadBodyRequests) =>
         /\ outcome.state = "rejected"
         /\ outcome.error.from = 1
         /\ pc = "done"
         /\ Len(requestHistory) = 1

\* the first request was answered 400 and the operation is over
C15_Witness ==
    /\ pc = "done"
    /\ 1 \in NotOkRequests
    /\ outcome.error.name = "JiraResponseError"
    /\ Len(requestHistory) = 1

\* C16: when any follow-up response has been consumed every follow-up
\* request has been sent, and the caller stays suspended exactly while no
\* callback has failed and some callback has not returned.
C16_ConcurrentFanOut ==
    /\ (\E k \in 2..Len(responses) : responses[k].status # 0) =>
          Len(requestHistory) = Len(rest) + 1
    /\ Len(cb) > 0 =>
          /\ outcome.state = "pending" <=>
                /\ \A i \in 1..Len(cb) : cb[i] # "threw"
                /\ \E i \in 1..Len(cb) : cb[i] # "returned"
          /\ outcome.state = "fulfilled" <=> \A i \in 1..Len(cb) : cb[i] = "returned"

\* the second follow-up was answered in full while the first one, sent
\* before it, has no response yet; the caller still waits
C16_Witness ==
    /\ Len(cb) = 2
    /\ responses[2].status = 0
    /\ responses[3].read /\ cb[2] = "returned"
    /\ outcome.state = "pending"

\* C17: the operation rejects with the failure observed first, whatever its
\* startAt, and once settled its outcome never changes.
C17_FirstFailureWins ==
    /\ [](Failures # <<>> => outcome = Rejected(Failures[1].error))
    /\ [][outcome.state # "pending" => outcome' = outcome]_vars

\* two follow-ups failed, the one with the higher startAt first, and the
\* operation carries that first failure
C17_Witness ==
    /\ Len(Failures) = 2
    /\ Failures[1].from > Failures[2].from
    /\ Failures[1].error # Failures[2].error
    /\ outcome.error = Failures[1].error

\* C18: once a follow-up callback has thrown the operation is rejected,
\* whatever the state of its siblings; and if every request sent is
\* eventually answered, a started operation eventually settles.
C18_Settles ==
    /\ []((\E i \in 1..Len(cb) : cb[i] = "threw") => outcome.state = "rejected")
    /\ (pc # "idle") ~> (outcome.state # "pending")

\* a follow-up failed and the operation is rejected while a sibling request
\* has no response yet
C18_Witness ==
    /\ outcome.state = "rejected"
    /\ \E i, j \in 1..Len(cb) :
         cb[i] = "threw" /\ cb[j] = "awaitRes" /\ responses[j + 1].status = 0

\* every request sent so far was answered 200 with an issue page
AllPagesValid ==
    \A k \in 1..Len(responses) :
        /\ responses[k].status = 200 /\ responses[k].read
        /\ k \notin BadBodyRequests

RECURSIVE SumBatchLengths(_)
SumBatchLengths(log) ==
    IF Len(log) = 0 THEN 0
    ELSE Len(Head(log).body.issues) + SumBatchLengths(Tail(log))

\* C20: once the first page is read no request is added, whatever the
\* follow-up pages report; and when every page is valid the operation
\* returns as many issues as the pages held, without comparing with total.
C20_PlanFixedByFirstPage ==
    /\ []((FirstPagePlanned /\ AllPagesValid) =>
            /\ outcome.state = "fulfilled"
            /\ Len(outcome.value) = SumBatchLengths(responses))
    /\ [][(Len(responses) >= 1 /\ responses[1].read) =>
            requestHistory' = requestHistory]_vars

\* a return of fewer issues than total, after a follow-up page that reports
\* another total and page size and holds fewer issues than its window
C20_Witness ==
    /\ outcome.state = "fulfilled"
    /\ Len(outcome.value) < responses[1].body.total.val
    /\ \E k \in 2..Len(responses) :
         /\ responses[k].body.total # responses[1].body.total
         /\ responses[k].body.maxResults # responses[1].body.maxResults
         /\ Len(responses[k].body.issues) < SentParams[k].maxResults

\* the least n with n * P >= T
CeilOf(T, P) == CHOOSE n \in 0..T : n * P >= T /\ (n = 0 \/ (n - 1) * P < T)

\* C19: on a valid input the planner returns exactly ceil(total / pageSize)
\* windows, each of a size from 1 to pageSize and all but the last of size
\* pageSize; total = 0 gives no window, and dropping the first window leaves
\* none whenever total <= pageSize.
C19_WindowCountAndSizes ==
    (chunks.called /\ ValidPlannerInput(opts)) =>
        LET P == opts.pageSize.val
            T == opts.total.val
            w == chunks.value
        IN  /\ Len(w) = CeilOf(T, P)
            /\ \A i \in 1..Len(w) : 1 <= w[i].pageSize /\ w[i].pageSize <= P
            /\ \A i \in 1..(Len(w) - 1) : w[i].pageSize = P
            /\ T = 0 => w = <<>>
            /\ T <= P => RestWindows(w) = <<>>

\* a call with 0 < total <= pageSize: one window, none left after the drop
C19_Witness ==
    /\ chunks.called /\ ~chunks.threw
    /\ Len(chunks.value) = 1
    /\ chunks.value[1].pageSize < opts.pageSize.val
    /\ RestWindows(chunks.value) = <<>>

(* ======================= properties of the application ================ *)
\* the components of the validated list that carry no lead
Unled == SelectSeq(compOutcome.value, LAMBDA c : c.lead = "absent")

\* C11: a search request exists only after the component list was fetched
\* and validated and only when a component has no lead, and then
\* componentIds holds the ids of the unled components and is not empty; when
\* the list has no unled component the result is the empty sequence and no
\* search request is sent.
C11_SearchOnlyForUnled ==
    /\ (requestHistory # <<>> \/ pc # "idle" \/ appPc = "issues") =>
          /\ compOutcome.state = "fulfilled"
          /\ compPc = "done"
          /\ Unled # <<>>
          /\ query # <<>>
          /\ query = [k \in 1..Len(Unled) |-> Unled[k].id]
    /\ (compOutcome.state = "fulfilled" /\ Unled = <<>>) =>
          /\ requestHistory = <<>>
          /\ pc = "idle"
          /\ appPc = "done" => report = <<>> /\ appOutcome.state = "fulfilled"

\* every component of a validated, non-empty list has a lead: the run ends
\* with the empty report and without a search request
C11_Witness ==
    /\ appPc = "done"
    /\ compOutcome.state = "fulfilled"
    /\ compOutcome.value # <<>>
    /\ Unled = <<>>
    /\ report = <<>>
    /\ requestHistory = <<>>

\* the number of fetched issues whose components name id at least once
IssuesReferencing(issues, id) ==
    Cardinality({i \in 1..Len(issues) :
        \E k \in 1..Len(issues[i].components) : issues[i].components[k].id = id})

\* C12: on success the result has one entry {id, name, issues} for each
\* component without a lead, in the list's order, none for a component with
\* a lead, and issues is the number of fetched issues that reference the
\* id, an issue counting once however often it names the component.
C12_OneEntryPerUnledCountingIssues ==
    (appPc = "done" /\ exitCode = 0) =>
        report = [k \in 1..Len(Unled) |->
                    [id |-> Unled[k].id, name |-> Unled[k].name,
                     issues |-> IssuesReferencing(outcome.value, Unled[k].id)]]

\* a fetch step of the run failed
FetchFailed == compOutcome.state = "rejected" \/ outcome.state = "rejected"

\* the lines of a report or of the success message
ReportOrSuccessLines ==
    {k \in 1..Len(stdout) : stdout[k].line \in {"none detected", "detected", "component"}}

\* C13: app() never rejects and ends fulfilled; when argument parsing or a
\* fetch step (component list, first page, a follow-up page) failed the run
\* ends with exit code 1 and has printed no report line and no success
\* message; exit code 0 only when the arguments parsed and every fetch step
\* succeeded.
C13_ResolvesWithExitCode ==
    /\ appOutcome.state # "rejected"
    /\ appPc = "done" <=> appOutcome.state = "fulfilled"
    /\ appPc = "done" <=> exitCode \in {0, 1}
    /\ (argv # "valid" \/ FetchFailed) =>
          /\ ReportOrSuccessLines = {}
          /\ exitCode # 0
          /\ appPc = "done" => exitCode = 1 /\ stderr # <<>>
    /\ exitCode = 0 =>
          /\ argv = "valid"
          /\ compOutcome.state = "fulfilled"
          /\ requestHistory = <<>> \/ outcome.state = "fulfilled"
          /\ \A k \in 1..Len(responses) : ~StatusNotOk(responses[k].status)

\* a follow-up page failed after the component list and the first page
\* succeeded: the run ended with exit code 1
C13_Witness ==
    /\ appPc = "done"
    /\ exitCode = 1
    /\ compOutcome.state = "fulfilled"
    /\ outcome.state = "rejected"
    /\ outcome.error.from > 1
    /\ appOutcome.state = "fulfilled"
====
